---- MODULE Spec2Model ----
(***************************************************************************)
(* A model of the session engine of src/gateway.py: the Supervisor         *)
(* (bot), the Lifecycle Manager (init_connection), the handshake           *)
(* (_init_session), the three pumps (_ping_loop, _recv_loop, _send_loop)   *)
(* and the external API (bot_stop, bot_restart, bot_send).                 *)
(*                                                                         *)
(* asyncio runs one task at a time and switches tasks only at an await     *)
(* that suspends, so every action below is one stretch of code between     *)
(* two suspension points.  The server, the transport and the user's        *)
(* parsers and callbacks are the environment: their choices are drawn      *)
(* with \E.                                                                *)
(***************************************************************************)
EXTENDS Integers, Sequences, FiniteSets, TLC

\* ---------------------------------------------------------------- bounds
\* What the environment does in one run: the frames the server sends in
\* steady state, the handshakes it does not answer with READY or RESUMED,
\* the connections the transport drops, the calls of bot_stop, bot_restart
\* and bot_send.
MaxEvents == 2
\* The calls of register_bot and of the decorators in one run of the
\* registration machine.
MaxRegCalls == 4

\* ------------------------------------------------------- program constants
DISPATCH == 0
HEARTBEAT == 1
IDENTIFY == 2
VOICE_STATE_UPDATE == 4
RESUME == 6
RECONNECT == 7
INVALID_SESSION == 9
HEARTBEAT_ACK == 11
MANUAL_STOP == -1
MALFORMED == -2
\* session_sequence holds a number, None (a frame with "s": null) or the
\* string 'null' (a frame without an "s" key); the last two are encoded as
\* negative numbers, which no frame carries.
SeqNone == -1
SeqNullStr == -2
\* the value of a key that a dict does not have: dict.get(key) is None
NoneValue == -1

\* A connection after the first is opened only after one of these events.
Conns == 1..(MaxEvents + 1)

\* ----------------------------------------------------------- wire frames
\* Event names as the server sends them (upper case) and as a handler's
\* function name spells them.
WireNames == {"MESSAGE_CREATE", "Typing_Start"}

Lower(t) ==
    CASE t = "MESSAGE_CREATE" -> "message_create"
      [] t = "Typing_Start" -> "typing_start"
      [] OTHER -> t

\* parse_json_str: an undecodable text becomes the sentinel {op:-2, d:false},
\* which has no "s" and no "t" key.
ParseJsonStr(raw) ==
    IF raw.decodable THEN [op |-> raw.op, s |-> raw.s, hasS |-> raw.hasS, t |-> raw.t]
    ELSE [op |-> MALFORMED, s |-> SeqNone, hasS |-> FALSE, t |-> ""]

\* The texts the server can send in steady state, given its sequence counter:
\* a dispatch carries the next sequence number, every other frame "s": null.
ServerOps == {HEARTBEAT, HEARTBEAT_ACK, RECONNECT, INVALID_SESSION, VOICE_STATE_UPDATE}

ServerTexts(n) ==
    {[decodable |-> TRUE, op |-> DISPATCH, s |-> n, hasS |-> TRUE, t |-> t] : t \in WireNames}
    \cup {[decodable |-> TRUE, op |-> o, s |-> SeqNone, hasS |-> TRUE, t |-> ""] : o \in ServerOps}
    \cup {[decodable |-> FALSE, op |-> 0, s |-> SeqNone, hasS |-> FALSE, t |-> ""]}

\* The replies to the identify or resume request of connection c: READY /
\* RESUMED (a dispatch whose d is an object; READY holds the id of the new
\* session, which the server never gives twice), invalid session (d is
\* false) and an undecodable text.
SessionIdOf(c) == <<"sid", c>>
NoSessionId == <<>>

ReplyTexts(c) ==
    { [decodable |-> TRUE, op |-> DISPATCH, dIsObject |-> TRUE, session_id |-> SessionIdOf(c)],
      [decodable |-> TRUE, op |-> INVALID_SESSION, dIsObject |-> FALSE, session_id |-> NoSessionId],
      [decodable |-> FALSE, op |-> 0, dIsObject |-> FALSE, session_id |-> NoSessionId] }

ParseReply(raw) ==
    IF raw.decodable THEN [op |-> raw.op, dIsObject |-> raw.dIsObject, session_id |-> raw.session_id]
    ELSE [op |-> MALFORMED, dIsObject |-> FALSE, session_id |-> NoSessionId]

\* -------------------------------------------------------- handler tables
\* A handler entry is <<callback, parser>>.
DefaultEntry == <<"_dummy_callback", "_default_parser">>

\* The aliases bots are registered under, and the intents they are given
\* (src/main.py registers alias '' with 10 << 12).
Aliases == {"", "b"}
MainIntents == 40960
IntentsValues == {0, MainIntents}

\* The registrations the session engine starts from: the one of src/main.py
\* (a named handler with its own parser, a fallback with the default parser,
\* a session-wide parser, intents 10 << 12) and one without any handler,
\* with intents 0.
NoHandlers == [n \in {} |-> DefaultEntry]

Registrations ==
    { [event_handlers |-> [n \in {"message_create"} |-> <<"message_create", "Message.parse_event">>],
       fallback |-> <<"other", "_default_parser">>,
       event_parser |-> "parser", bot_intents |-> MainIntents],
      [event_handlers |-> NoHandlers,
       fallback |-> DefaultEntry,
       event_parser |-> "None", bot_intents |-> 0] }

VARIABLES
    \* Session State (the dict register_bot stores in __bots__[alias])
    session_id, session_state, session_code, session_sequence,
    tasks, queue, event_handlers, func_handlers, event_parser,
    \* the Supervisor and the Lifecycle Manager: where bot is, and the
    \* number of connections opened so far (the current one)
    supPc, conn,
    \* per connection: the socket and the three pump tasks
    ws, ping, recv, send,
    \* the environment: the server's sequence counter, the events so far,
    \* the calls of the external API among them
    nextS, events, calls,
    \* history.  Of the connection that ended last, kept until the handshake
    \* of the next one is over: the reconnect, invalid-session or undecodable
    \* frame it got in steady state (got), the stop or restart requested in its steady
    \* state (req), whether the transport dropped it in steady state (dropAt),
    \* whether a parser or callback raised on it (raisedOn), and the
    \* handshake payload sent on the next one (wire).  Besides: the session id
    \* of the last identify, the sequence recorded for the last frame handled,
    \* the payloads given to bot_send and those the send pump sent, and the
    \* frame handled by the step just taken.
    wire, got, identSid, req, dropAt, raisedOn, recSeq, enq, sent, lastEv,
    \* the connections whose receive pump has ended the session (lines
    \* 424-425) and has not ended itself yet
    exited,
    \* the registry: __bots__ (for every alias, what register_bot was given
    \* and whether its handler tables are those of __bot_callbacks__; the
    \* rest of the Session State of alias '', the bot that is run, is in the
    \* variables above), __bot_callbacks__ (the handlers the decorators
    \* attached), and the outcome of the last registration call
    bots, bot_callbacks, regOut,
    \* history: for every alias, the functions the decorators were applied
    \* to (the named ones by lower-cased name, and the fallback)
    attached,
    \* the heartbeat: hb_info of Session State, the heartbeat_interval (ms)
    \* of the hello it was computed from, the local variables of each
    \* heartbeat pump (of _ping_loop: hb_info, jitter, interval), and what the
    \* heartbeat pump did in the step just taken
    hb_info, helloMs, pingLocal, lastBeat,
    \* the handshake that ended in the step just taken: its connection, the
    \* request sent and the opcode of the reply
    lastHs

sessionVars == <<session_id, session_state, session_code, session_sequence,
                 tasks, queue, event_handlers, func_handlers, event_parser>>
supVars == <<supPc, conn>>
connVars == <<ws, ping, recv, send>>
envVars == <<nextS, events, calls>>
histVars == <<wire, got, identSid, req, dropAt, raisedOn, recSeq, enq, sent>>
\* The receive pumps among a set of connections that have not ended.
Waiting(cs, r) == {c \in cs : r[c] = "wait"}
regVars == <<bots, bot_callbacks, regOut, attached>>
hbVars == <<hb_info, helloMs, pingLocal>>
vars == <<sessionVars, supVars, connVars, envVars, histVars, lastEv, regVars,
          hbVars, lastBeat, lastHs, exited>>

\* history values before anything happened
NoPayload == [op |-> NoneValue, keys |-> {}, session_id |-> NoSessionId, seq |-> 0,
              intents |-> 0, conn |-> 0]
NoEvent == [conn |-> 0, op |-> NoneValue, t |-> "", s |-> 0,
            invoked |-> <<>>, ran |-> <<>>, userRaised |-> FALSE, seqAtInvoke |-> 0]
Nothing == [conn |-> 0, code |-> 0]
NoHs == [conn |-> 0, request |-> NoneValue, reply |-> NoneValue]
NoBeat == [conn |-> 0, slept |-> 0, sent |-> 0]
NoLocals == [hb_info |-> <<0, 0>>, jitter |-> TRUE, interval |-> 0]
NoCall == [call |-> "none", alias |-> "", intents |-> 0, raised |-> "none"]

\* ------------------------------------------------------------- payloads
\* get_intents reads the key 'intents' of the alias's entry in __bots__ with
\* dict.get, which returns None for a key the dict does not have;
\* register_bot stores the value under 'bot_intents'.
GetIntents(bot) ==
    IF "intents" \in DOMAIN bot THEN bot.intents ELSE NoneValue

GetIdentifyPayload(bot) ==
    IF GetIntents(bot) # 0
    THEN [op |-> IDENTIFY, keys |-> {"token", "properties", "intents"},
          session_id |-> NoSessionId, seq |-> 0, intents |-> GetIntents(bot)]
    ELSE [op |-> IDENTIFY, keys |-> {"token", "properties"},
          session_id |-> NoSessionId, seq |-> 0, intents |-> 0]

GetResumePayloadNoSeq(sid, seq) ==
    [op |-> RESUME, keys |-> {"token", "session_id", "seq"},
     session_id |-> sid, seq |-> 0, intents |-> 0]

GetResumePayload(sid, seq) ==
    [op |-> RESUME, keys |-> {"token", "session_id", "seq"},
     session_id |-> sid, seq |-> seq, intents |-> 0]

\* ------------------------------------------------------------- dispatch
\* _recv_handler, line 376: the sequence recorded for a frame.
NewSequence(f, old) == IF f.hasS THEN f.s ELSE SeqNullStr

\* _recv_handler: the sequence is stored (line 376) before the handler is
\* called (line 404), so the handler finds the new value.
SequenceAtDispatchOld(old, new) == old

SequenceAtDispatch(old, new) == new

\* _recv_handler, lines 383-388: the handler entry of a dispatch frame.
ResolveNoLower(t, handlers, fallback) ==
    IF t \in DOMAIN handlers THEN handlers[t] ELSE fallback

Resolve(t, handlers, fallback) ==
    IF Lower(t) \in DOMAIN handlers THEN handlers[Lower(t)] ELSE fallback

\* _recv_handler, lines 402-403: the session's parser replaces the default
\* parser of the entry, for this call only.
SubstituteParser(entry, parser) ==
    IF parser # "None" /\ entry[2] = "_default_parser"
    THEN <<entry[1], parser>> ELSE entry

\* _event_callback: the parser runs, then the callback unless the parser
\* raised; an Exception of either is caught.  ran: the callbacks that were
\* called; propagates: an exception leaves _event_callback.
EventCallbackNoCatch(entry, parserRaises, callbackRaises) ==
    [ran |-> IF parserRaises THEN <<>> ELSE <<entry[1]>>,
     propagates |-> parserRaises \/ callbackRaises]

EventCallback(entry, parserRaises, callbackRaises) ==
    [ran |-> IF parserRaises THEN <<>> ELSE <<entry[1]>>,
     propagates |-> FALSE]

\* _recv_handler as a function of the frame, the session's tables and the
\* behaviour of the user's code.  invoked: the entries handed to
\* _event_callback; code: the value returned.
RecvHandler(f, old, handlers, fallback, parser, parserRaises, callbackRaises) ==
    LET seq == NewSequence(f, old)
        seen == SequenceAtDispatch(old, seq)
        entry == SubstituteParser(Resolve(f.t, handlers, fallback), parser)
        out == EventCallback(entry, parserRaises, callbackRaises)
    IN  IF f.op = DISPATCH
        THEN [sequence |-> seq, invoked |-> <<entry>>, ran |-> out.ran,
              seqAtInvoke |-> seen, propagates |-> out.propagates,
              heartbeat |-> FALSE, code |-> 0]
        ELSE [sequence |-> seq, invoked |-> <<>>, ran |-> <<>>,
              seqAtInvoke |-> seq, propagates |-> FALSE,
              heartbeat |-> (f.op = HEARTBEAT),
              code |-> IF f.op \in {HEARTBEAT, HEARTBEAT_ACK} THEN 0 ELSE f.op]

\* ------------------------------------------------------------ heartbeat
\* A hello is <<heartbeat_interval in ms, the value random() returns when
\* the hello is parsed>>; the random value, in [0, 1), is a fraction <<n, d>>.
RandomValues == {<<0, 4>>, <<3, 4>>}
Hellos == {500, 2500, 41250} \X RandomValues
\* the hello of a run in which the heartbeat is not looked at
MainHello == <<41250, <<3, 4>>>>

\* _parse_heartbeat, lines 190-191: <<jitter interval, interval>>, in
\* seconds, both truncated to integers.
ParseHeartbeat(hello) ==
    LET interval == hello[1] \div 1000
    IN  <<(interval * hello[2][1]) \div hello[2][2], interval>>

\* _ping_loop, line 478: the interval of the next sleep.
NextSleepPlain(loc) ==
    [loc EXCEPT !.interval = loc.hb_info[2], !.jitter = FALSE]

NextSleep(loc) ==
    [loc EXCEPT !.interval = IF loc.jitter THEN loc.hb_info[1] ELSE loc.hb_info[2],
                !.jitter = FALSE]

\* The local variables of the heartbeat pumps that have not ended.
LiveLocals(loc, p) ==
    [c \in Conns |-> IF p[c] = "sleep" THEN loc[c] ELSE NoLocals]

\* --------------------------------------------------------- cancellation
\* task.cancel(): a suspended pump gets CancelledError at its await, which
\* every loop catches, and ends; a task that has ended is left as it is.  A
\* task that has not run yet ends cancelled: awaiting it raises
\* CancelledError.  Only the heartbeat task is ever awaited (line 566), so
\* only for it the two ends are told apart.
CancelPing(s) ==
    IF s = "new" THEN "cancelled" ELSE IF s = "sleep" THEN "done" ELSE s

CancelPump(s) ==
    IF s \in {"new", "wait", "get"} THEN "done" ELSE s

\* _cancel_tasks: cancels the tasks stored in Session State (t = 0: none).
CancelTasks(f, t, isPing) ==
    [c \in Conns |-> IF c # t THEN f[c]
                     ELSE IF isPing THEN CancelPing(f[c]) ELSE CancelPump(f[c])]

\* ------------------------------------------------------------- registry
\* An alias that is not in __bots__, and one that is not in __bot_callbacks__.
NoBot == [registered |-> FALSE, bot_intents |-> 0, event_parser |-> "None", linked |-> FALSE]
NoCallbacks == [present |-> FALSE, event_handlers |-> NoHandlers, func_handlers |-> DefaultEntry]
NoAttached == [named |-> [n \in {} |-> ""], fallback |-> "_dummy_callback"]

\* register_bot, lines 157-161: the handler tables of a Session State, those
\* of __bot_callbacks__ when `update` found the alias there.
HandlersOf(bot, cb) ==
    IF bot.linked
    THEN [event_handlers |-> cb.event_handlers, func_handlers |-> cb.func_handlers]
    ELSE [event_handlers |-> NoHandlers, func_handlers |-> DefaultEntry]

\* event, lines 114-122: the decorator applied to a function.  The first
\* decorator of an alias makes the alias's tables; its parser becomes the
\* parser of the fallback entry.
Event(cb, func, parser) ==
    IF ~cb.present
    THEN [present |-> TRUE,
          event_handlers |-> [n \in {Lower(func)} |-> <<func, parser>>],
          func_handlers |-> <<"_dummy_callback", parser>>]
    ELSE [cb EXCEPT !.event_handlers =
                       [n \in {Lower(func)} |-> <<func, parser>>] @@ cb.event_handlers]

\* unhandled_event, lines 76-84: the first decorator of an alias makes the
\* tables with dummy entries and does not store the function.
UnhandledEvent(cb, func, parser) ==
    IF ~cb.present
    THEN [present |-> TRUE,
          event_handlers |-> [n \in {"dummy"} |-> <<"_dummy_callback", parser>>],
          func_handlers |-> <<"_dummy_callback", parser>>]
    ELSE [cb EXCEPT !.func_handlers = <<func, parser>>]

\* register_bot, line 142: the test that refuses an alias.
AlreadyRegisteredNever(reg, alias) == FALSE

AlreadyRegistered(reg, alias) == reg[alias].registered

\* The connection is in steady state: the handshake is over, the pumps run.
Steady(c) ==
    /\ c = conn /\ supPc = "await_ping" /\ ws[c] = "open" /\ session_state
    /\ ping[c] = "sleep" /\ recv[c] = "wait"

\* The Session State register_bot makes (lines 145-160, all but the handler
\* tables, the parser and the intents), and the engine before bot is called.
InitEngine ==
    /\ session_id = NoSessionId
    /\ session_state = TRUE
    /\ session_code = 0
    /\ session_sequence = 0
    /\ tasks = 0
    /\ queue = <<>>
    /\ supPc = "connect"
    /\ conn = 0
    /\ ws = [c \in Conns |-> "none"]
    /\ ping = [c \in Conns |-> "none"]
    /\ recv = [c \in Conns |-> "none"]
    /\ send = [c \in Conns |-> "none"]
    /\ nextS = 1
    /\ events = 0
    /\ calls = 0
    /\ wire = NoPayload
    /\ got = Nothing
    /\ identSid = NoSessionId
    /\ req = Nothing
    /\ dropAt = 0
    /\ raisedOn = 0
    /\ recSeq = 0
    /\ enq = <<>>
    /\ sent = <<>>
    /\ lastEv = NoEvent
    /\ hb_info = <<0, 0>>
    /\ helloMs = 0
    /\ pingLocal = [c \in Conns |-> NoLocals]
    /\ lastBeat = NoBeat
    /\ lastHs = NoHs
    /\ exited = {}

\* The state in which bot is called: alias '' is registered, with the handlers
\* that were attached to it before.
Init ==
    /\ \E r \in Registrations :
         LET hasHandlers == DOMAIN r.event_handlers # {}
         IN  /\ event_handlers = r.event_handlers
             /\ func_handlers = r.fallback
             /\ event_parser = r.event_parser
             /\ bots = [a \in Aliases |->
                          IF a = "" THEN [registered |-> TRUE, bot_intents |-> r.bot_intents,
                                          event_parser |-> r.event_parser, linked |-> hasHandlers]
                          ELSE NoBot]
             /\ bot_callbacks = [a \in Aliases |->
                          IF a = "" /\ hasHandlers
                          THEN [present |-> TRUE, event_handlers |-> r.event_handlers,
                                func_handlers |-> r.fallback]
                          ELSE NoCallbacks]
             /\ attached = [a \in Aliases |->
                          IF a = "" /\ hasHandlers
                          THEN [named |-> [n \in DOMAIN r.event_handlers |->
                                             r.event_handlers[n][1]],
                                fallback |-> r.fallback[1]]
                          ELSE NoAttached]
    /\ regOut = NoCall
    /\ InitEngine

\* ----------------------------------------------------------- Supervisor
\* bot, line 584, and init_connection, line 554: a connection is opened.
SupConnect ==
    /\ supPc = "connect"
    /\ conn <= MaxEvents
    /\ conn' = conn + 1
    /\ ws' = [ws EXCEPT ![conn + 1] = "open"]
    /\ supPc' = "hello"
    /\ lastEv' = NoEvent
    /\ UNCHANGED regVars
    /\ lastHs' = NoHs
    /\ UNCHANGED exited
    /\ UNCHANGED hbVars
    /\ lastBeat' = NoBeat
    /\ UNCHANGED <<sessionVars, ping, recv, send, envVars, histVars>>

\* _init_session, lines 530-537, up to the await of the reply: the hello is
\* read and hb_info computed from it, the session code chooses between a resume and an identify, and the
\* payload is sent.  On a socket the transport dropped, ws.recv() raises
\* ConnectionClosed, which bot catches (line 585).
SupHello(hello) ==
    /\ supPc = "hello"
    /\ IF ws[conn] # "open"
       THEN /\ supPc' = "closing"
            /\ UNCHANGED <<wire, hb_info, helloMs>>
       ELSE /\ supPc' = "reply"
            /\ hb_info' = ParseHeartbeat(hello)
            /\ helloMs' = hello[1]
            /\ wire' = [conn |-> conn] @@
                         (IF session_code = RECONNECT
                          THEN GetResumePayload(session_id, session_sequence)
                          ELSE GetIdentifyPayload(bots[""]))
    /\ lastEv' = NoEvent
    /\ UNCHANGED regVars
    /\ lastHs' = NoHs
    /\ UNCHANGED exited
    /\ UNCHANGED pingLocal
    /\ lastBeat' = NoBeat
    /\ UNCHANGED <<sessionVars, conn, connVars, envVars,
                   got, identSid, req, dropAt, raisedOn, recSeq, enq, sent>>

\* _resume / _identify after the reply arrived, the rest of _init_session
\* (lines 538-541) and init_connection up to its first await (lines 557-566).
\* After an identify, resp['d']['session_id'] raises TypeError when d is
\* false: nothing catches it, the async with closes the socket and bot ends
\* with the exception.
SupReply(raw) ==
    /\ supPc = "reply"
    /\ LET resp == ParseReply(raw)
           refused == ws[conn] = "open" /\ ~resp.dIsObject
       IN  /\ refused => events < MaxEvents
           /\ events' = IF refused THEN events + 1 ELSE events
           /\ IF ws[conn] # "open"
              THEN /\ supPc' = "closing"
                   /\ UNCHANGED <<sessionVars, connVars, identSid>>
              ELSE IF wire.op = IDENTIFY /\ ~resp.dIsObject
              THEN /\ supPc' = "crashed"
                   /\ ws' = [ws EXCEPT ![conn] = "closed"]
                   /\ UNCHANGED <<sessionVars, ping, recv, send, identSid>>
              ELSE /\ session_id' = IF wire.op = IDENTIFY THEN resp.session_id ELSE session_id
                   /\ identSid' = IF wire.op = IDENTIFY THEN resp.session_id ELSE identSid
                   /\ session_code' = resp.op
                   /\ IF resp.op # INVALID_SESSION
                      THEN /\ ping' = [ping EXCEPT ![conn] = "new"]
                           /\ recv' = [recv EXCEPT ![conn] = "new"]
                           /\ send' = [send EXCEPT ![conn] = "new"]
                           /\ tasks' = conn
                           /\ supPc' = "await_ping"
                           /\ UNCHANGED ws
                      ELSE /\ ws' = [ws EXCEPT ![conn] = "closed"]
                           /\ supPc' = "closing"
                           /\ UNCHANGED <<ping, recv, send, tasks>>
                   /\ UNCHANGED <<session_state, session_sequence, queue,
                                  event_handlers, func_handlers, event_parser>>
    /\ wire' = NoPayload
    /\ got' = Nothing
    /\ req' = Nothing
    /\ dropAt' = 0
    /\ raisedOn' = 0
    /\ lastEv' = NoEvent
    /\ UNCHANGED regVars
    /\ lastHs' = IF ws[conn] = "open"
                 THEN [conn |-> conn, request |-> wire.op, reply |-> ParseReply(raw).op]
                 ELSE NoHs
    /\ UNCHANGED exited
    /\ UNCHANGED hbVars
    /\ lastBeat' = NoBeat
    /\ UNCHANGED <<conn, nextS, calls, recSeq, enq, sent>>

\* init_connection, lines 566-568: `await ping, recv, send` awaits the
\* heartbeat task alone.  When that task has ended the socket is closed; the
\* task's ConnectionClosed is caught by bot, its CancelledError is not.  The
\* task's result is read here and nowhere else.
SupClose ==
    /\ supPc = "await_ping"
    /\ ping[conn] \in {"done", "raised", "cancelled"}
    /\ ws' = [ws EXCEPT ![conn] = "closed"]
    /\ supPc' = IF ping[conn] = "cancelled" THEN "crashed" ELSE "closing"
    /\ ping' = [ping EXCEPT ![conn] = "done"]
    /\ lastEv' = NoEvent
    /\ UNCHANGED regVars
    /\ lastHs' = NoHs
    /\ UNCHANGED exited
    /\ UNCHANGED hbVars
    /\ lastBeat' = NoBeat
    /\ UNCHANGED <<sessionVars, conn, recv, send, envVars, histVars>>

\* bot, lines 589-599: the session code is read, active is set, and the code
\* decides between the cooldown, an immediate retry and the end of the loop.
DecideRetryAll(code) ==
    IF code = INVALID_SESSION THEN "cooldown" ELSE "connect"

Decide(code) ==
    IF code = INVALID_SESSION THEN "cooldown"
    ELSE IF code = RECONNECT THEN "connect"
    ELSE "terminated"

SupDecide ==
    /\ supPc = "closing"
    /\ session_state' = TRUE
    /\ supPc' = Decide(session_code)
    /\ lastEv' = NoEvent
    /\ UNCHANGED regVars
    /\ lastHs' = NoHs
    /\ UNCHANGED exited
    /\ UNCHANGED hbVars
    /\ lastBeat' = NoBeat
    /\ UNCHANGED <<session_id, session_code, session_sequence, tasks, queue,
                   event_handlers, func_handlers, event_parser,
                   conn, connVars, envVars,
                   wire, got, identSid, req, dropAt, raisedOn, recSeq, enq, sent>>

\* bot, line 593: the cooldown is over.
SupCooldown ==
    /\ supPc = "cooldown"
    /\ supPc' = "connect"
    /\ lastEv' = NoEvent
    /\ UNCHANGED regVars
    /\ lastHs' = NoHs
    /\ UNCHANGED exited
    /\ UNCHANGED hbVars
    /\ lastBeat' = NoBeat
    /\ UNCHANGED <<sessionVars, conn, connVars, envVars, histVars>>

\* ---------------------------------------------------------------- pumps
\* The three tasks created at lines 561-563 run for the first time, one
\* after the other, up to their first await: the heartbeat pump reads
\* hb_info (line 474), tests active and sleeps the jitter interval, the
\* receive pump waits for a frame, the send pump tests active.
PumpsStart(c) ==
    /\ ping[c] = "new" /\ recv[c] = "new" /\ send[c] = "new"
    /\ ping' = [ping EXCEPT ![c] = IF session_state THEN "sleep" ELSE "done"]
    /\ recv' = [recv EXCEPT ![c] = "wait"]
    /\ send' = [send EXCEPT ![c] = IF session_state THEN "get" ELSE "done"]
    /\ pingLocal' = LiveLocals([pingLocal EXCEPT ![c] =
                                   NextSleep([NoLocals EXCEPT !.hb_info = hb_info])], ping')
    /\ lastEv' = NoEvent
    /\ UNCHANGED regVars
    /\ lastHs' = NoHs
    /\ UNCHANGED exited
    /\ UNCHANGED <<hb_info, helloMs>>
    /\ lastBeat' = NoBeat
    /\ UNCHANGED <<sessionVars, supVars, ws, envVars, histVars>>

\* _ping_loop, lines 476-480: the sleep is over, a heartbeat is sent
\* (ws.send raises ConnectionClosed on a socket that is not open) and
\* active is tested again.
PingBeat(c) ==
    /\ ping[c] = "sleep"
    /\ ping' = [ping EXCEPT ![c] =
                  IF ws[c] # "open" THEN "raised"
                  ELSE IF session_state THEN "sleep" ELSE "done"]
    /\ pingLocal' = LiveLocals([pingLocal EXCEPT ![c] = NextSleep(@)], ping')
    /\ lastBeat' = [conn |-> c, slept |-> pingLocal[c].interval,
                    sent |-> IF ws[c] = "open" THEN 1 ELSE 0]
    /\ lastEv' = NoEvent
    /\ UNCHANGED regVars
    /\ lastHs' = NoHs
    /\ UNCHANGED exited
    /\ UNCHANGED <<hb_info, helloMs>>
    /\ UNCHANGED <<sessionVars, supVars, ws, recv, send, envVars, histVars>>

\* json.dumps raises TypeError for a payload that holds a value JSON cannot
\* express.
Encodable(payload) == payload # "unencodable"

\* _send_loop, lines 447-449: queue.get() blocks on an empty queue; a
\* payload taken from it is encoded and sent, and active is tested again.
\* The TypeError of json.dumps and the ConnectionClosed that ws.send raises
\* on a socket that is not open are not among the exceptions the try
\* statement around the loop catches: either ends the pump.
SendLoop(c) ==
    /\ send[c] = "get"
    /\ IF queue = <<>>
       THEN UNCHANGED <<queue, send, sent>>
       ELSE LET transmitted == Encodable(Head(queue)) /\ ws[c] = "open"
            IN  /\ queue' = Tail(queue)
                /\ sent' = IF transmitted THEN Append(sent, Head(queue)) ELSE sent
                /\ send' = [send EXCEPT ![c] =
                              IF transmitted /\ session_state THEN "get" ELSE "done"]
    /\ lastEv' = NoEvent
    /\ UNCHANGED regVars
    /\ lastHs' = NoHs
    /\ UNCHANGED exited
    /\ UNCHANGED hbVars
    /\ lastBeat' = NoBeat
    /\ UNCHANGED <<session_id, session_state, session_code, session_sequence, tasks,
                   event_handlers, func_handlers, event_parser,
                   supVars, ws, ping, recv, envVars,
                   wire, got, identSid, req, dropAt, raisedOn, recSeq, enq>>

\* _recv_loop, lines 421-425, for one frame: _recv_handler, then the test
\* that ends the session.  The frame is read from an open socket, or it is
\* one the transport received before the socket closed: the loop goes on
\* after ws.close() (line 425) and recv() hands out what was received.  An
\* exception that leaves the handler (ws.send of a heartbeat on a closed
\* socket) ends the pump through its finally clause (line 431).
RecvFrame(c, raw, parserRaises, callbackRaises) ==
    /\ recv[c] = "wait"
    /\ events < MaxEvents
    /\ ws[c] \in {"open", "closed"}
    /\ LET f == ParseJsonStr(raw)
           h == RecvHandler(f, session_sequence, event_handlers, func_handlers,
                            event_parser, parserRaises, callbackRaises)
           escapes == h.propagates \/ (h.heartbeat /\ ws[c] # "open")
           ends == h.code # DISPATCH \/ ~session_state
       IN  /\ session_sequence' = h.sequence
           /\ IF escapes
              THEN /\ ping' = CancelTasks(ping, tasks, TRUE)
                   /\ send' = CancelTasks(send, tasks, FALSE)
                   /\ recv' = [CancelTasks(recv, tasks, FALSE) EXCEPT ![c] = "done"]
                   /\ UNCHANGED <<session_code, session_state, ws>>
              ELSE /\ IF ends
                      THEN /\ session_code' = h.code
                           /\ session_state' = FALSE
                           /\ ws' = [ws EXCEPT ![c] = "closed"]
                      ELSE UNCHANGED <<session_code, session_state, ws>>
                   /\ UNCHANGED <<ping, recv, send>>
           /\ exited' = Waiting(IF ~escapes /\ ends THEN exited \cup {c} ELSE exited, recv')
           /\ got' = IF Steady(c) /\ f.op \in {RECONNECT, INVALID_SESSION, MALFORMED}
                     THEN [conn |-> c, code |-> f.op] ELSE got
           /\ recSeq' = session_sequence'
           /\ raisedOn' = IF parserRaises \/ callbackRaises THEN c ELSE raisedOn
           /\ lastEv' = [conn |-> c, op |-> f.op, t |-> f.t, s |-> f.s,
                         invoked |-> h.invoked, ran |-> h.ran,
                         userRaised |-> parserRaises \/ callbackRaises,
                         seqAtInvoke |-> h.seqAtInvoke]
    /\ events' = events + 1
    /\ UNCHANGED regVars
    /\ lastHs' = NoHs
    /\ pingLocal' = LiveLocals(pingLocal, ping')
    /\ UNCHANGED <<hb_info, helloMs>>
    /\ lastBeat' = NoBeat
    /\ nextS' = IF raw.decodable /\ raw.op = DISPATCH THEN nextS + 1 ELSE nextS
    /\ UNCHANGED <<session_id, tasks, queue, event_handlers, func_handlers, event_parser,
                   supVars, calls, wire, identSid, req, dropAt, enq, sent>>

\* _recv_loop, lines 421 and 427-431: the iteration over a socket that is
\* closed and has no frame left ends (silently, or with ConnectionClosed
\* after an abnormal closure), and the finally clause cancels the tasks
\* stored in Session State.
RecvEnd(c) ==
    /\ recv[c] = "wait"
    /\ ws[c] = "closed"
    /\ ping' = CancelTasks(ping, tasks, TRUE)
    /\ send' = CancelTasks(send, tasks, FALSE)
    /\ recv' = [CancelTasks(recv, tasks, FALSE) EXCEPT ![c] = "done"]
    /\ pingLocal' = LiveLocals(pingLocal, ping')
    /\ exited' = Waiting(exited, recv')
    /\ lastEv' = NoEvent
    /\ UNCHANGED regVars
    /\ lastHs' = NoHs
    /\ UNCHANGED <<hb_info, helloMs>>
    /\ lastBeat' = NoBeat
    /\ UNCHANGED <<sessionVars, supVars, ws, envVars, histVars>>

\* ---------------------------------------------------------- environment
\* The transport loses the connection (or the server closes it).
Drop(c) ==
    /\ ws[c] = "open"
    /\ events < MaxEvents
    /\ events' = events + 1
    /\ ws' = [ws EXCEPT ![c] = "closed"]
    /\ dropAt' = IF Steady(c) THEN c ELSE dropAt
    /\ lastEv' = NoEvent
    /\ UNCHANGED regVars
    /\ lastHs' = NoHs
    /\ UNCHANGED exited
    /\ UNCHANGED hbVars
    /\ lastBeat' = NoBeat
    /\ UNCHANGED <<sessionVars, supVars, ping, recv, send, nextS, calls,
                   wire, got, identSid, req, raisedOn, recSeq, enq, sent>>

\* bot_stop, lines 312-313.
BotStop ==
    /\ events < MaxEvents
    /\ events' = events + 1
    /\ supPc \notin {"terminated", "crashed"}
    /\ session_code' = MANUAL_STOP
    /\ session_state' = FALSE
    /\ calls' = calls + 1
    /\ req' = IF Steady(conn) THEN [conn |-> conn, code |-> MANUAL_STOP] ELSE req
    /\ lastEv' = NoEvent
    /\ UNCHANGED regVars
    /\ lastHs' = NoHs
    /\ UNCHANGED exited
    /\ UNCHANGED hbVars
    /\ lastBeat' = NoBeat
    /\ UNCHANGED <<session_id, session_sequence, tasks, queue,
                   event_handlers, func_handlers, event_parser,
                   supVars, connVars, nextS,
                   wire, got, identSid, dropAt, raisedOn, recSeq, enq, sent>>

\* bot_restart, lines 323-324.
BotRestart(code) ==
    /\ events < MaxEvents
    /\ events' = events + 1
    /\ supPc \notin {"terminated", "crashed"}
    /\ session_code' = code
    /\ session_state' = FALSE
    /\ calls' = calls + 1
    /\ req' = IF Steady(conn) THEN [conn |-> conn, code |-> code] ELSE req
    /\ lastEv' = NoEvent
    /\ UNCHANGED regVars
    /\ lastHs' = NoHs
    /\ UNCHANGED exited
    /\ UNCHANGED hbVars
    /\ lastBeat' = NoBeat
    /\ UNCHANGED <<session_id, session_sequence, tasks, queue,
                   event_handlers, func_handlers, event_parser,
                   supVars, connVars, nextS,
                   wire, got, identSid, dropAt, raisedOn, recSeq, enq, sent>>

\* bot_send, line 334: asyncio.Queue.put is a coroutine function; the call
\* makes a coroutine object that is never awaited, so nothing is put.
QueuePut(q, payload) == q

Payloads == {"p1", "p2"}

BotSend(payload) ==
    /\ events < MaxEvents
    /\ events' = events + 1
    /\ supPc \notin {"terminated", "crashed"}
    /\ queue' = QueuePut(queue, payload)
    /\ enq' = Append(enq, payload)
    /\ calls' = calls + 1
    /\ lastEv' = NoEvent
    /\ UNCHANGED regVars
    /\ lastHs' = NoHs
    /\ UNCHANGED exited
    /\ UNCHANGED hbVars
    /\ lastBeat' = NoBeat
    /\ UNCHANGED <<session_id, session_state, session_code, session_sequence, tasks,
                   event_handlers, func_handlers, event_parser,
                   supVars, connVars, nextS,
                   wire, got, identSid, req, dropAt, raisedOn, recSeq, sent>>

Next ==
    \/ SupConnect
    \/ SupHello(MainHello)
    \/ \E raw \in ReplyTexts(conn) : SupReply(raw)
    \/ SupClose
    \/ SupDecide
    \/ SupCooldown
    \/ \E c \in Conns : PumpsStart(c)
    \/ \E c \in Conns : PingBeat(c)
    \/ \E c \in Conns : SendLoop(c)
    \/ \E c \in Conns : \E raw \in ServerTexts(nextS) :
          \E outcome \in {<<FALSE, FALSE>>, <<TRUE, FALSE>>, <<FALSE, TRUE>>} :
             /\ (outcome[1] \/ outcome[2]) => (raw.decodable /\ raw.op = DISPATCH)
             /\ RecvFrame(c, raw, outcome[1], outcome[2])
    \/ \E c \in Conns : RecvEnd(c)
    \/ \E c \in Conns : Drop(c)
    \/ BotStop
    \/ \E code \in {RECONNECT, INVALID_SESSION} : BotRestart(code)
    \/ \E payload \in Payloads : BotSend(payload)

Spec == Init /\ [][Next]_vars

\* ----------------------------------------------------------- send runs
\* User code puts a payload on the queue of Session State, which get_bot
\* hands out (bot_send puts nothing, see QueuePut).
DirectPayloads == {"p1", "unencodable"}

DirectPut(payload) ==
    /\ events < MaxEvents
    /\ events' = events + 1
    /\ supPc \notin {"terminated", "crashed"}
    /\ queue' = Append(queue, payload)
    /\ lastEv' = NoEvent
    /\ lastBeat' = NoBeat
    /\ lastHs' = NoHs
    /\ UNCHANGED exited
    /\ UNCHANGED <<session_id, session_state, session_code, session_sequence, tasks,
                   event_handlers, func_handlers, event_parser,
                   supVars, connVars, nextS, calls, histVars, regVars, hbVars>>

\* The engine with payloads on the queue, without inbound frames, which the
\* send pump does not look at.
NextSend ==
    \/ SupConnect
    \/ SupHello(MainHello)
    \/ \E raw \in ReplyTexts(conn) : SupReply(raw)
    \/ SupClose
    \/ SupDecide
    \/ SupCooldown
    \/ \E c \in Conns : PumpsStart(c)
    \/ \E c \in Conns : PingBeat(c)
    \/ \E c \in Conns : SendLoop(c)
    \/ \E c \in Conns : RecvEnd(c)
    \/ \E c \in Conns : Drop(c)
    \/ BotStop
    \/ \E code \in {RECONNECT, INVALID_SESSION} : BotRestart(code)
    \/ \E payload \in DirectPayloads : DirectPut(payload)

SpecSend == Init /\ [][NextSend]_vars

\* ------------------------------------------------------ heartbeat runs
\* The engine with every hello the server can send, without inbound frames
\* and outbound payloads, which the heartbeat pump does not look at.
NextHeartbeat ==
    \/ SupConnect
    \/ \E hello \in Hellos : SupHello(hello)
    \/ \E raw \in ReplyTexts(conn) : SupReply(raw)
    \/ SupClose
    \/ SupDecide
    \/ SupCooldown
    \/ \E c \in Conns : PumpsStart(c)
    \/ \E c \in Conns : PingBeat(c)
    \/ \E c \in Conns : RecvEnd(c)
    \/ \E c \in Conns : Drop(c)
    \/ BotStop
    \/ \E code \in {RECONNECT, INVALID_SESSION} : BotRestart(code)

SpecHeartbeat == Init /\ [][NextHeartbeat]_vars

\* -------------------------------------------------- registration machine
\* The module before any call: no alias is registered, no handler attached.
\* (The Session State of alias '' does not exist yet; its variables hold
\* what register_bot will write.)
InitRegister ==
    /\ event_handlers = NoHandlers
    /\ func_handlers = DefaultEntry
    /\ event_parser = "None"
    /\ bots = [a \in Aliases |-> NoBot]
    /\ bot_callbacks = [a \in Aliases |-> NoCallbacks]
    /\ attached = [a \in Aliases |-> NoAttached]
    /\ regOut = NoCall
    /\ InitEngine

\* register_bot.  A registered alias is refused (line 143).  Otherwise the
\* Session State is stored (line 145) and then updated with the handlers
\* attached to the alias (line 161): `update` stores the very dicts of
\* __bot_callbacks__, and raises KeyError, the state being stored already,
\* when nothing was attached.
RegisterBot(alias, intents, parser) ==
    /\ calls < MaxRegCalls
    /\ calls' = calls + 1
    /\ IF AlreadyRegistered(bots, alias)
       THEN /\ regOut' = [call |-> "register_bot", alias |-> alias, intents |-> intents,
                          raised |-> "BotRegisterError"]
            /\ UNCHANGED <<bots, sessionVars>>
       ELSE LET cb == bot_callbacks[alias]
            IN  /\ bots' = [bots EXCEPT ![alias] =
                              [registered |-> TRUE, bot_intents |-> intents,
                               event_parser |-> parser, linked |-> cb.present]]
                /\ regOut' = [call |-> "register_bot", alias |-> alias, intents |-> intents,
                              raised |-> IF cb.present THEN "none" ELSE "KeyError"]
                /\ IF alias = ""
                   THEN /\ session_id' = NoSessionId
                        /\ session_state' = TRUE
                        /\ session_code' = 0
                        /\ session_sequence' = 0
                        /\ tasks' = 0
                        /\ queue' = <<>>
                        /\ event_parser' = parser
                        /\ event_handlers' = HandlersOf(bots'[alias], cb).event_handlers
                        /\ func_handlers' = HandlersOf(bots'[alias], cb).func_handlers
                   ELSE UNCHANGED sessionVars
    /\ UNCHANGED <<bot_callbacks, attached, supVars, connVars, nextS, events, histVars, lastEv,
                   hbVars, lastBeat, lastHs, exited>>

\* A decorator is applied for an alias.  The tables of a registered alias
\* are the dicts of __bot_callbacks__, so the bot sees the change.
Attach(alias, cb, call, att) ==
    /\ calls < MaxRegCalls
    /\ calls' = calls + 1
    /\ bot_callbacks' = [bot_callbacks EXCEPT ![alias] = cb]
    /\ attached' = [attached EXCEPT ![alias] = att]
    /\ regOut' = [call |-> call, alias |-> alias, intents |-> 0, raised |-> "none"]
    /\ IF alias = "" /\ bots[alias].linked
       THEN /\ event_handlers' = cb.event_handlers
            /\ func_handlers' = cb.func_handlers
       ELSE UNCHANGED <<event_handlers, func_handlers>>
    /\ UNCHANGED <<session_id, session_state, session_code, session_sequence, tasks,
                   queue, event_parser, bots,
                   supVars, connVars, nextS, events, histVars, lastEv,
                   hbVars, lastBeat, lastHs, exited>>

EventCall(alias, func, parser) ==
    Attach(alias, Event(bot_callbacks[alias], func, parser), "event",
           [attached[alias] EXCEPT !.named = [n \in {Lower(func)} |-> func] @@ @])

UnhandledEventCall(alias, func, parser) ==
    Attach(alias, UnhandledEvent(bot_callbacks[alias], func, parser), "unhandled_event",
           [attached[alias] EXCEPT !.fallback = func])

\* The arguments of the calls: the decorated functions with their parsers
\* (those of src/main.py, and one whose name has capitals), the parsers
\* given to register_bot.
EventFuncs == {<<"message_create", "Message.parse_event">>, <<"Typing_Start", "_default_parser">>}
SessionParsers == {"None", "parser"}

NextRegister ==
    \/ \E alias \in Aliases : \E intents \in IntentsValues : \E parser \in SessionParsers :
          RegisterBot(alias, intents, parser)
    \/ \E alias \in Aliases : \E fp \in EventFuncs : EventCall(alias, fp[1], fp[2])
    \/ \E alias \in Aliases : UnhandledEventCall(alias, "other", "_default_parser")

SpecRegister == InitRegister /\ [][NextRegister]_vars

\* ================================================================ claims
\* The handshake payload of the connection that follows connection c.
NextHandshake(c) == wire.conn = c + 1

Stopped == supPc \in {"terminated", "crashed"}

\* C1: once the receive pump got a reconnect frame (op 7) in steady state,
\* the Supervisor does not leave its loop and the handshake of the next
\* connection sends a resume payload.  (No call of the external API is made.)
C1_ReconnectResumes ==
    (got.code = RECONNECT /\ calls = 0) =>
        /\ ~Stopped
        /\ NextHandshake(got.conn) => wire.op = RESUME

\* C2: once the receive pump got an invalid-session frame (op 9) in steady
\* state, the Supervisor does not leave its loop and the handshake of the
\* next connection sends an identify payload without a session id, not a
\* resume payload.  (No call of the external API is made.)
C2_InvalidSessionIdentifies ==
    (got.code = INVALID_SESSION /\ calls = 0) =>
        /\ ~Stopped
        /\ NextHandshake(got.conn) =>
              (wire.op = IDENTIFY /\ "session_id" \notin wire.keys)

\* C3: after bot_stop was called in steady state (and no other call of the
\* API was made), no new connection is opened, whatever the server sends.
C3_StopOpensNoConnection ==
    (req.code = MANUAL_STOP /\ calls = 1) => conn = req.conn

\* C4: after bot_restart(code) was called in steady state with code 7 or 9
\* (and no other call of the API was made), the Supervisor goes on, and the
\* next handshake is a resume for 7 and an identify for 9: the code it reads
\* when the connection ends is the requested one.
C4_RestartCodeIsRead ==
    (req.code \in {RECONNECT, INVALID_SESSION} /\ calls = 1) =>
        /\ ~Stopped
        /\ NextHandshake(req.conn) =>
              wire.op = (IF req.code = RECONNECT THEN RESUME ELSE IDENTIFY)

\* C5: after the transport dropped a connection in steady state, no stop or
\* restart having been requested, the Supervisor does not leave its loop.
C5_DropRecovers ==
    (dropAt # 0 /\ calls = 0) => ~Stopped

\* C6: the session id changes only when the reply to an identify is stored,
\* and a resume payload carries, when it is sent, the session id stored by
\* the last identify and the sequence recorded for the last frame handled.
C6_ResumePayload ==
    [][ /\ session_id' # session_id =>
              (supPc = "reply" /\ wire.op = IDENTIFY /\ session_id' = identSid')
        /\ (wire' # wire /\ wire'.op = RESUME) =>
              (wire'.session_id = identSid /\ wire'.seq = recSeq) ]_vars

\* C6 witness: the third connection resumes the session that the second
\* connection identified, after the first session was invalidated.
C6_Witness ==
    /\ wire.conn = 3 /\ wire.op = RESUME
    /\ wire.session_id = SessionIdOf(2)
    /\ wire.seq = recSeq

\* C7: a dispatch frame's handler finds session_sequence equal to the
\* frame's s, and after the frame session_sequence is that s.
C7_SequenceBeforeDispatch ==
    lastEv.op = DISPATCH =>
        /\ lastEv.seqAtInvoke = lastEv.s
        /\ session_sequence = lastEv.s

\* C7 witness: the second of two dispatch frames (s = 1, then s = 2) was
\* handled and its callback ran.
C7_Witness ==
    /\ lastEv.op = DISPATCH /\ lastEv.s = 2
    /\ Len(lastEv.ran) = 1
    /\ session_sequence = 2

\* C9: a dispatch frame invokes one handler entry, once: the entry
\* registered under the lower-cased event name if there is one, otherwise
\* the fallback; no other callback runs, and a frame whose name is not
\* registered runs no callback of the named-handler table.  (An entry is
\* invoked by handing it to _event_callback; its callback runs unless its
\* parser raises.)
C9_OneHandler ==
    lastEv.op = DISPATCH =>
        LET name == Lower(lastEv.t)
            named == name \in DOMAIN event_handlers
            expected == IF named THEN event_handlers[name][1] ELSE func_handlers[1]
        IN  /\ Len(lastEv.invoked) = 1
            /\ lastEv.invoked[1][1] = expected
            /\ lastEv.ran \in {<<>>, <<expected>>}
            /\ ~named => \A n \in DOMAIN event_handlers :
                            /\ lastEv.invoked[1] # event_handlers[n]
                            /\ lastEv.ran # <<event_handlers[n][1]>>

\* C9 witness: with a handler registered for message_create, a frame of
\* another event invoked the fallback entry and ran its callback.
C9_Witness ==
    /\ lastEv.op = DISPATCH
    /\ "message_create" \in DOMAIN event_handlers
    /\ lastEv.t = "Typing_Start"
    /\ lastEv.invoked = <<<<"other", "parser">>>>
    /\ lastEv.ran = <<"other">>

C11_MalformedStops ==
    (got.code = MALFORMED /\ calls = 0) =>
        /\ conn = got.conn
        /\ supPc \in {"await_ping", "closing", "terminated"}

\* C12: a call of register_bot for an alias that is registered raises
\* BotRegisterError and changes nothing: neither the registry entry of that
\* alias or of any other, nor the Session State, nor the attached handlers.
C12_DuplicateRefused ==
    [][ (calls' # calls /\ regOut'.call = "register_bot"
            /\ bots[regOut'.alias].registered) =>
            /\ regOut'.raised = "BotRegisterError"
            /\ bots' = bots
            /\ bot_callbacks' = bot_callbacks
            /\ sessionVars' = sessionVars ]_vars

\* C12 witness: both aliases are registered, alias 'b' with intents 0, and a
\* call that registers 'b' again with other intents was refused.
C12_Witness ==
    /\ bots[""].registered /\ bots["b"].registered
    /\ bots["b"].bot_intents = 0
    /\ regOut.call = "register_bot" /\ regOut.alias = "b"
    /\ regOut.intents = MainIntents
    /\ regOut.raised = "BotRegisterError"

C14_IdentifyIntents ==
    wire.op = IDENTIFY =>
        IF bots[""].bot_intents # 0
        THEN "intents" \in wire.keys /\ wire.intents = bots[""].bot_intents
        ELSE "intents" \notin wire.keys

\* C15: when the reply to the identify or resume request has the
\* invalid-session opcode, the session code becomes 9, no pump is started,
\* the connection is closed and init_connection returns to the Supervisor.
C15_InvalidReplyReturns9 ==
    lastHs.reply = INVALID_SESSION =>
        /\ session_code = INVALID_SESSION
        /\ supPc = "closing"
        /\ ws[lastHs.conn] = "closed"
        /\ ping[lastHs.conn] = "none" /\ recv[lastHs.conn] = "none"
        /\ send[lastHs.conn] = "none"

\* C16: when the reply to the identify or resume request cannot be decoded,
\* the connection is closed with none of its three pumps started (whether
\* init_connection returns or raises).
C16_MalformedReplyAborts ==
    lastHs.reply = MALFORMED =>
        /\ supPc \in {"closing", "crashed"}
        /\ ws[lastHs.conn] = "closed"
        /\ ping[lastHs.conn] = "none" /\ recv[lastHs.conn] = "none"
        /\ send[lastHs.conn] = "none"

\* C17: once init_connection has returned from a connection, and all the
\* more once the Supervisor has opened the next one, none of the
\* connection's three pumps is still running.
C17_NoPumpOutlives ==
    \A c \in Conns :
        (c < conn \/ (c = conn /\ supPc \in {"closing", "cooldown", "connect", "terminated"})) =>
            /\ ping[c] \in {"none", "done", "raised", "cancelled"}
            /\ recv[c] \in {"none", "done"}
            /\ send[c] \in {"none", "done"}

\* C18: when the send pump takes a payload from the queue and fails to
\* encode or to transmit it (the payload is not sent), no send pump ends.
C18_SendFailureContained ==
    [][ (queue # <<>> /\ queue' = Tail(queue) /\ sent' = sent) => send' = send ]_vars

\* C19: a receive pump that has ended the session (it recorded the session
\* code, cleared active and closed the connection) handles no further frame.
C19_NoFrameAfterExit ==
    [][ lastEv'.conn # 0 => lastEv'.conn \notin exited ]_vars

\* C20: no step of a receive pump that handles a decodable frame makes
\* session_sequence smaller (the server sends increasing sequence numbers in
\* its dispatch frames and "s": null in its other frames).
C20_SequenceMonotonic ==
    [][ (lastEv'.conn # 0 /\ lastEv'.op # MALFORMED) =>
            session_sequence' >= session_sequence ]_vars

\* C21: when init_connection has returned (or its ConnectionClosed was
\* caught), the Supervisor sets active and goes on to another connection,
\* after the cooldown for code 9 and at once for code 7, and leaves its loop
\* for every other code; it reaches the cooldown and the opening of a
\* connection in no other way, and once out of its loop it stays out and
\* opens no connection.
C21_SupervisorDecision ==
    [][ /\ (supPc = "closing" /\ supPc' # supPc) =>
              /\ session_state'
              /\ session_code = INVALID_SESSION => supPc' = "cooldown"
              /\ session_code = RECONNECT => supPc' = "connect"
              /\ session_code \notin {RECONNECT, INVALID_SESSION} => supPc' = "terminated"
        /\ (supPc' = "cooldown" /\ supPc # supPc') => supPc = "closing"
        /\ (supPc' = "connect" /\ supPc # supPc') => supPc \in {"closing", "cooldown"}
        /\ conn' # conn => supPc = "connect"
        /\ supPc = "terminated" => (supPc' = supPc /\ conn' = conn) ]_vars

\* C21 witness: the Supervisor went on to a second connection and left its
\* loop when that one ended with the manual-stop code.
C21_Witness ==
    /\ conn = 2 /\ supPc = "terminated"
    /\ session_code = MANUAL_STOP /\ session_state

\* C22: the step in which the receive pump of a connection ends changes no
\* pump of a later connection.
C22_CancelOwnPumps ==
    [][ \A c \in Conns :
          (recv[c] = "wait" /\ recv'[c] = "done") =>
              \A d \in Conns :
                  d > c => (ping'[d] = ping[d] /\ recv'[d] = recv[d] /\ send'[d] = send[d]) ]_vars

\* C23: whatever decorators were applied for an alias beforehand (named
\* handlers and a fallback, in any order, or none), register_bot on an
\* alias that is not registered succeeds, and the stored Session State
\* holds exactly what was attached: every named callback under its
\* lower-cased name and no other named entry, and the attached fallback
\* callback (the no-op default when none was attached).
C23_RegisterHoldsAttached ==
    [][(/\ calls' # calls
        /\ regOut'.call = "register_bot"
        /\ ~bots[regOut'.alias].registered)
       => LET a == regOut'.alias
              att == attached[a]
              held == HandlersOf(bots'[a], bot_callbacks'[a])
          IN  /\ regOut'.raised = "none"
              /\ bots'[a].registered
              /\ DOMAIN held.event_handlers = DOMAIN att.named
              /\ \A n \in DOMAIN att.named : held.event_handlers[n][1] = att.named[n]
              /\ held.func_handlers[1] = att.fallback]_vars

\* C8: a payload given to bot_send is appended to the outbound queue.
C8_EnqueueAppends ==
    [][ enq' # enq => queue' = Append(queue, enq'[Len(enq')]) ]_vars

====
